---- MODULE Spec2Model ----
(***************************************************************************)
(* Barrier chains of the XCM executor: the tuple implementations of        *)
(* ShouldExecute, CheckSuspension and DenyExecution                        *)
(* (polkadot/xcm/xcm-executor/src/traits/should_execute.rs).               *)
(*                                                                         *)
(* One chain evaluation is modelled as a state machine: the caller's       *)
(* arguments are chosen in Init, every expansion of the for_tuples! body   *)
(* (one trial of the next tuple element) is one step, and the statement    *)
(* after the expansion is the final step.                                  *)
(***************************************************************************)
EXTENDS Naturals, Sequences, FiniteSets

\* --------------------------------------------------------------- bounds
MaxChain == 2      \* longest tuple of policies
MaxInstr == 2      \* longest instruction slice
MaxWeight == 1     \* largest Weight value

\* ---------------------------------------------------- external data types
Instruction == {"BuyExecution", "ClearOrigin"}
Location == {"Parent", "Here"}
Weight == 0..MaxWeight
XcmHash == {"H1"}
None == "None"
ProcessMessageError == {"BadFormat", "Unsupported", "Yield"}

\* struct Properties { weight_credit, message_id }
Properties == [weight_credit : Weight, message_id : XcmHash \cup {None}]

\* Result<(), ProcessMessageError>, and the bool of is_suspended, as values
Ok == <<"Ok">>
Err(error) == <<"Err", error>>
Bool(b) == IF b THEN <<"true">> ELSE <<"false">>
Running == <<>>

\* All slices of at most n instructions
RECURSIVE SeqsUpTo(_, _)
SeqsUpTo(S, n) ==
  IF n = 0 THEN {<<>>}
  ELSE LET shorter == SeqsUpTo(S, n - 1)
       IN  shorter \cup {Append(s, x) : s \in {t \in shorter : Len(t) = n - 1}, x \in S}

\* --------------------------------------------- implementors of the traits
\* A tuple element is any type implementing the trait.  The implementors
\* below are the ones the chains are exercised with: `cond` decides the
\* verdict from the arguments the element is given, `effect` is what it
\* writes through its two &mut arguments, `err` is the error of a rejection.
PolicyAccept == [name |-> "PolicyAccept", cond |-> "always", effect |-> "set_id", err |-> "Unsupported"]
PolicyReject == [name |-> "PolicyReject", cond |-> "never", effect |-> "none", err |-> "BadFormat"]
PolicyDeny == [name |-> "PolicyDeny", cond |-> "never", effect |-> "none", err |-> "Yield"]
TakeCredit == [name |-> "TakeCredit", cond |-> "never", effect |-> "zero_credit", err |-> "Unsupported"]
StripHead == [name |-> "StripHead", cond |-> "never", effect |-> "rewrite_head", err |-> "BadFormat"]
GrantCredit == [name |-> "GrantCredit", cond |-> "never", effect |-> "fill_credit", err |-> "Yield"]
AllowPaid == [name |-> "AllowPaid", cond |-> "credit", effect |-> "spend", err |-> "Yield"]
AllowHead == [name |-> "AllowHead", cond |-> "head", effect |-> "rewrite_head", err |-> "BadFormat"]
AllowParent == [name |-> "AllowParent", cond |-> "origin", effect |-> "none", err |-> "Unsupported"]

Policies ==
  {PolicyAccept, PolicyReject, PolicyDeny, TakeCredit, GrantCredit, StripHead,
   AllowPaid, AllowHead, AllowParent}

\* The condition an implementor evaluates on its arguments
Holds(p, origin, instructions, max_weight, properties) ==
  CASE p.cond = "always" -> TRUE
    [] p.cond = "never" -> FALSE
    [] p.cond = "credit" -> properties.weight_credit >= max_weight
    [] p.cond = "head" -> Len(instructions) > 0 /\ instructions[1] = "BuyExecution"
    [] p.cond = "origin" -> origin = "Parent"

\* What an implementor leaves behind `instructions: &mut [Instruction]`:
\* elements may be overwritten in place, the slice keeps its length.
MutateInstructions(p, instructions) ==
  IF p.effect = "rewrite_head" /\ Len(instructions) > 0
  THEN [instructions EXCEPT ![1] = "ClearOrigin"]
  ELSE instructions

\* What an implementor leaves behind `properties: &mut Properties`
MutateProperties(p, max_weight, properties) ==
  CASE p.effect = "set_id" -> [properties EXCEPT !.message_id = "H1"]
    [] p.effect = "zero_credit" -> [properties EXCEPT !.weight_credit = 0]
    [] p.effect = "fill_credit" -> [properties EXCEPT !.weight_credit = max_weight]
    [] p.effect = "spend" ->
         IF properties.weight_credit >= max_weight
         THEN [properties EXCEPT !.weight_credit = properties.weight_credit - max_weight]
         ELSE properties
    [] OTHER -> properties

\* tracing::trace! / tracing::error! with the fields the source names, the
\* &mut arguments being formatted as the trial left them
EventOf(level, target, o, w, r, barrier, message) ==
  [level |-> level, target |-> target, origin |-> o,
   instructions |-> r.instructions, max_weight |-> w,
   properties |-> r.properties,
   error |-> IF r.result[1] = "Err" THEN r.result[2] ELSE None,
   barrier |-> barrier, message |-> message]

\* A tuple of implementors implements the trait itself (impl_for_tuples),
\* so it can be an element of another tuple.
NestedTuple(elems) == [name |-> "Tuple", elems |-> elems]
IsTuple(p) == "elems" \in DOMAIN p

Families == {"should_execute", "is_suspended", "deny_execution"}

\* The outcome of a trial on which the tuple impl returns at once
Stops(fam, result) ==
  CASE fam = "should_execute" -> result = Ok
    [] fam = "is_suspended" -> result = Bool(TRUE)
    [] fam = "deny_execution" -> result # Ok

\* The value after the last expansion of for_tuples!
Fallthrough(fam) ==
  CASE fam = "should_execute" -> Err("Unsupported")
    [] fam = "is_suspended" -> Bool(FALSE)
    [] fam = "deny_execution" -> Ok

\* The events one expansion of for_tuples! emits after its trial returned r
TrialEvents(fam, o, w, r, barrier) ==
  CASE fam = "should_execute" ->
         <<EventOf("trace", "xcm::should_execute", o, w, r, barrier,
                   IF r.result = Ok THEN "pass barrier" ELSE "did not pass barrier")>>
    [] fam = "is_suspended" -> <<>>
    [] fam = "deny_execution" ->
         IF r.result = Ok
         THEN <<EventOf("trace", "xcm::deny_execution", o, w, r, barrier, "pass barrier")>>
         ELSE <<EventOf("error", "xcm::deny_execution", o, w, r, barrier, "did not pass barrier")>>

RECURSIVE TupleImpl(_, _, _, _, _, _)
RECURSIVE should_execute(_, _, _, _, _)
RECURSIVE is_suspended(_, _, _, _, _)
RECURSIVE deny_execution(_, _, _, _, _)

\* fn should_execute(origin, instructions, max_weight, properties) -> Result
\* `leaves` lists the implementors that ran, `events` what was traced inside.
should_execute(p, origin, instructions, max_weight, properties) ==
  IF IsTuple(p)
  THEN TupleImpl("should_execute", p.elems, origin, instructions, max_weight, properties)
  ELSE [result |-> IF Holds(p, origin, instructions, max_weight, properties) THEN Ok ELSE Err(p.err),
        instructions |-> MutateInstructions(p, instructions),
        properties |-> MutateProperties(p, max_weight, properties),
        leaves |-> <<p.name>>, events |-> <<>>]

\* fn is_suspended(origin, instructions, max_weight, properties) -> bool
is_suspended(p, origin, instructions, max_weight, properties) ==
  IF IsTuple(p)
  THEN TupleImpl("is_suspended", p.elems, origin, instructions, max_weight, properties)
  ELSE [result |-> Bool(Holds(p, origin, instructions, max_weight, properties)),
        instructions |-> MutateInstructions(p, instructions),
        properties |-> MutateProperties(p, max_weight, properties),
        leaves |-> <<p.name>>, events |-> <<>>]

\* Variant: a tuple used as an element reports a rejection as Unsupported
deny_execution_NestedGeneric(p, origin, instructions, max_weight, properties) ==
  IF IsTuple(p)
  THEN LET r == TupleImpl("deny_execution", p.elems, origin, instructions, max_weight, properties)
       IN  IF r.result = Ok THEN r ELSE [r EXCEPT !.result = Err("Unsupported")]
  ELSE [result |-> IF Holds(p, origin, instructions, max_weight, properties) THEN Ok ELSE Err(p.err),
        instructions |-> MutateInstructions(p, instructions),
        properties |-> MutateProperties(p, max_weight, properties),
        leaves |-> <<p.name>>, events |-> <<>>]

\* fn deny_execution(origin, instructions, max_weight, properties) -> Result
deny_execution(p, origin, instructions, max_weight, properties) ==
  IF IsTuple(p)
  THEN TupleImpl("deny_execution", p.elems, origin, instructions, max_weight, properties)
  ELSE [result |-> IF Holds(p, origin, instructions, max_weight, properties) THEN Ok ELSE Err(p.err),
        instructions |-> MutateInstructions(p, instructions),
        properties |-> MutateProperties(p, max_weight, properties),
        leaves |-> <<p.name>>, events |-> <<>>]

\* The trait method of family fam called on element p
ElementCall(fam, p, o, i, w, pr) ==
  CASE fam = "should_execute" -> should_execute(p, o, i, w, pr)
    [] fam = "is_suspended" -> is_suspended(p, o, i, w, pr)
    [] fam = "deny_execution" -> deny_execution(p, o, i, w, pr)

\* A whole call of the tuple impl of family fam on the tuple elems, from its
\* first expansion to its return: what a caller of the tuple gets back.
TupleImpl(fam, elems, o, i, w, pr) ==
  IF elems = <<>>
  THEN [result |-> Fallthrough(fam), instructions |-> i, properties |-> pr,
        leaves |-> <<>>, events |-> <<>>]
  ELSE LET r == ElementCall(fam, Head(elems), o, i, w, pr)
           ev == r.events \o TrialEvents(fam, o, w, r, Head(elems).name)
       IN  IF Stops(fam, r.result)
           THEN [r EXCEPT !.events = ev]
           ELSE LET rest == TupleImpl(fam, Tail(elems), o, r.instructions, w, r.properties)
                IN  [rest EXCEPT !.leaves = r.leaves \o @, !.events = ev \o @]

\* ------------------------------------------------------------------ state
VARIABLES
  family,        \* which trait's tuple impl is running
  Tuple,         \* the tuple of implementors, in declared order
  input,         \* the arguments as the caller supplied them
  origin,        \* origin: &Location
  instructions,  \* instructions: &mut [Instruction]
  max_weight,    \* max_weight: Weight
  properties,    \* properties: &mut Properties
  pc,            \* index of the next tuple element to try
  ret,           \* the value returned, Running until the function returns
  calls,         \* the element calls made so far, in order
  log,           \* the tracing events emitted so far, in order
  cur,           \* the evaluation (thread) that is running
  parked         \* the other evaluations in progress, each with its own frame

vars == <<family, Tuple, input, origin, instructions, max_weight, properties, pc, ret, calls, log,
          cur, parked>>

Init ==
  /\ family \in Families
  /\ Tuple \in SeqsUpTo(Policies, MaxChain)
  /\ origin \in Location
  /\ instructions \in SeqsUpTo(Instruction, MaxInstr)
  /\ max_weight \in Weight
  /\ properties \in Properties
  /\ input = [origin |-> origin, instructions |-> instructions,
              max_weight |-> max_weight, properties |-> properties]
  /\ pc = 1
  /\ ret = Running
  /\ calls = <<>>
  /\ log = <<>>
  /\ cur = 1
  /\ parked = <<>>

\* One call of a tuple element, as a counting/recording stub would see it
Call(p, r) ==
  [index |-> pc, policy |-> p, origin |-> origin, max_weight |-> max_weight,
   instructions_in |-> instructions, properties_in |-> properties,
   instructions_out |-> r.instructions, properties_out |-> r.properties,
   outcome |-> r.result, leaves |-> r.leaves]

\* An event emitted by the running evaluation
Event(level, target, r, barrier, message) ==
  EventOf(level, target, origin, max_weight, r, barrier, message)

\* ------------------------------------------- impl ShouldExecute for Tuple
\* Variant: a rejected trial's writes are restored before the next trial
AdmissionTrial_Rollback ==
  /\ family = "should_execute" /\ ret = Running /\ pc <= Len(Tuple)
  /\ LET r == should_execute(Tuple[pc], origin, instructions, max_weight, properties)
     IN  /\ calls' = Append(calls, Call(Tuple[pc], r))
         /\ IF r.result = Ok
            THEN /\ instructions' = r.instructions
                 /\ properties' = r.properties
                 /\ log' = Append(log \o r.events, Event("trace", "xcm::should_execute", r, Tuple[pc].name, "pass barrier"))
                 /\ ret' = Ok
                 /\ pc' = pc
            ELSE /\ instructions' = instructions
                 /\ properties' = properties
                 /\ log' = Append(log \o r.events, Event("trace", "xcm::should_execute", r, Tuple[pc].name, "did not pass barrier"))
                 /\ ret' = ret
                 /\ pc' = pc + 1
  /\ UNCHANGED <<family, Tuple, input, origin, max_weight, cur, parked>>

\* Variant: an accepting trial does not return, the expansion goes on
AdmissionTrial_NoReturn ==
  /\ family = "should_execute" /\ ret = Running /\ pc <= Len(Tuple)
  /\ LET r == should_execute(Tuple[pc], origin, instructions, max_weight, properties)
     IN  /\ instructions' = r.instructions
         /\ properties' = r.properties
         /\ calls' = Append(calls, Call(Tuple[pc], r))
         /\ log' = Append(log \o r.events, Event("trace", "xcm::should_execute", r, Tuple[pc].name,
                                     IF r.result = Ok THEN "pass barrier" ELSE "did not pass barrier"))
         /\ ret' = ret
         /\ pc' = pc + 1
  /\ UNCHANGED <<family, Tuple, input, origin, max_weight, cur, parked>>

\* Variant: the first rejection is returned, as the denial chain does
AdmissionTrial_StopOnErr ==
  /\ family = "should_execute" /\ ret = Running /\ pc <= Len(Tuple)
  /\ LET r == should_execute(Tuple[pc], origin, instructions, max_weight, properties)
     IN  /\ instructions' = r.instructions
         /\ properties' = r.properties
         /\ calls' = Append(calls, Call(Tuple[pc], r))
         /\ log' = Append(log \o r.events, Event("trace", "xcm::should_execute", r, Tuple[pc].name,
                                     IF r.result = Ok THEN "pass barrier" ELSE "did not pass barrier"))
         /\ ret' = r.result
         /\ pc' = pc
  /\ UNCHANGED <<family, Tuple, input, origin, max_weight, cur, parked>>

\* Variant: a rejected trial emits no event
AdmissionTrial_SilentErr ==
  /\ family = "should_execute" /\ ret = Running /\ pc <= Len(Tuple)
  /\ LET r == should_execute(Tuple[pc], origin, instructions, max_weight, properties)
     IN  /\ calls' = Append(calls, Call(Tuple[pc], r))
         /\ IF r.result = Ok
            THEN /\ log' = Append(log \o r.events, Event("trace", "xcm::should_execute", r, Tuple[pc].name, "pass barrier"))
                 /\ ret' = Ok
                 /\ pc' = pc
                 /\ instructions' = r.instructions
                 /\ properties' = r.properties
            ELSE /\ ret' = ret
                 /\ instructions' = r.instructions
                 /\ properties' = r.properties
                 /\ log' = log \o r.events
                 /\ pc' = pc + 1
  /\ UNCHANGED <<family, Tuple, input, origin, max_weight, cur, parked>>

\* Variant: a rejected element is tried a second time before the next one
AdmissionTrial_Retry ==
  /\ family = "should_execute" /\ ret = Running /\ pc <= Len(Tuple)
  /\ LET r == should_execute(Tuple[pc], origin, instructions, max_weight, properties)
     IN  /\ calls' = Append(calls, Call(Tuple[pc], r))
         /\ IF r.result = Ok
            THEN /\ log' = Append(log \o r.events, Event("trace", "xcm::should_execute", r, Tuple[pc].name, "pass barrier"))
                 /\ ret' = Ok
                 /\ pc' = pc
                 /\ instructions' = r.instructions
                 /\ properties' = r.properties
            ELSE /\ ret' = ret
                 /\ instructions' = r.instructions
                 /\ properties' = r.properties
                 /\ log' = Append(log \o r.events, Event("trace", "xcm::should_execute", r, Tuple[pc].name, "did not pass barrier"))
                 /\ pc' = IF calls # <<>> /\ calls[Len(calls)].index = pc THEN pc + 1 ELSE pc
  /\ UNCHANGED <<family, Tuple, input, origin, max_weight, cur, parked>>

\* Variant: a rejected trial is charged to the weight budget of the next trial
AdmissionTrial_ConsumesWeight ==
  /\ family = "should_execute" /\ ret = Running /\ pc <= Len(Tuple)
  /\ LET r == should_execute(Tuple[pc], origin, instructions, max_weight, properties)
     IN  /\ calls' = Append(calls, Call(Tuple[pc], r))
         /\ IF r.result = Ok
            THEN /\ log' = Append(log \o r.events, Event("trace", "xcm::should_execute", r, Tuple[pc].name, "pass barrier"))
                 /\ ret' = Ok
                 /\ pc' = pc
                 /\ instructions' = r.instructions
                 /\ properties' = r.properties
                 /\ max_weight' = max_weight
            ELSE /\ ret' = ret
                 /\ instructions' = r.instructions
                 /\ properties' = r.properties
                 /\ log' = Append(log \o r.events, Event("trace", "xcm::should_execute", r, Tuple[pc].name, "did not pass barrier"))
                 /\ pc' = pc + 1
                 /\ max_weight' = 0
  /\ UNCHANGED <<family, Tuple, input, origin, cur, parked>>

\* Variant: tracing a rejection takes the Properties, leaving the default value
AdmissionTrial_TraceTakes ==
  /\ family = "should_execute" /\ ret = Running /\ pc <= Len(Tuple)
  /\ LET r == should_execute(Tuple[pc], origin, instructions, max_weight, properties)
     IN  /\ calls' = Append(calls, Call(Tuple[pc], r))
         /\ IF r.result = Ok
            THEN /\ log' = Append(log \o r.events, Event("trace", "xcm::should_execute", r, Tuple[pc].name, "pass barrier"))
                 /\ ret' = Ok
                 /\ pc' = pc
                 /\ instructions' = r.instructions
                 /\ properties' = r.properties
            ELSE /\ ret' = ret
                 /\ instructions' = r.instructions
                 /\ properties' = [weight_credit |-> 0, message_id |-> None]
                 /\ log' = Append(log \o r.events, Event("trace", "xcm::should_execute", r, Tuple[pc].name, "did not pass barrier"))
                 /\ pc' = pc + 1
  /\ UNCHANGED <<family, Tuple, input, origin, max_weight, cur, parked>>

\* Variant: the Properties live in a process-wide static that every
\* evaluation in progress reads and writes, not behind the caller's reference
AdmissionTrial_StaticProperties ==
  /\ family = "should_execute" /\ ret = Running /\ pc <= Len(Tuple)
  /\ LET r == should_execute(Tuple[pc], origin, instructions, max_weight, properties)
     IN  /\ instructions' = r.instructions
         /\ properties' = r.properties
         /\ parked' = [e \in DOMAIN parked |-> [parked[e] EXCEPT !.properties = r.properties]]
         /\ calls' = Append(calls, Call(Tuple[pc], r))
         /\ IF r.result = Ok
            THEN /\ log' = Append(log \o r.events, Event("trace", "xcm::should_execute", r, Tuple[pc].name, "pass barrier"))
                 /\ ret' = Ok
                 /\ pc' = pc
            ELSE /\ log' = Append(log \o r.events, Event("trace", "xcm::should_execute", r, Tuple[pc].name, "did not pass barrier"))
                 /\ ret' = ret
                 /\ pc' = pc + 1
  /\ UNCHANGED <<family, Tuple, input, origin, max_weight, cur>>

\* One expansion of the for_tuples! body: try the next element; Ok returns
\* Ok(()), Err(error) is traced and the expansion of the next element follows.
AdmissionTrial ==
  /\ family = "should_execute" /\ ret = Running /\ pc <= Len(Tuple)
  /\ LET r == should_execute(Tuple[pc], origin, instructions, max_weight, properties)
     IN  /\ instructions' = r.instructions
         /\ properties' = r.properties
         /\ calls' = Append(calls, Call(Tuple[pc], r))
         /\ IF r.result = Ok
            THEN /\ log' = Append(log \o r.events, Event("trace", "xcm::should_execute", r, Tuple[pc].name, "pass barrier"))
                 /\ ret' = Ok
                 /\ pc' = pc
            ELSE /\ log' = Append(log \o r.events, Event("trace", "xcm::should_execute", r, Tuple[pc].name, "did not pass barrier"))
                 /\ ret' = ret
                 /\ pc' = pc + 1
  /\ UNCHANGED <<family, Tuple, input, origin, max_weight, cur, parked>>

\* Variant: the error of the last rejected trial is returned
AdmissionReject_LastError ==
  /\ family = "should_execute" /\ ret = Running /\ pc > Len(Tuple)
  /\ ret' = IF calls = <<>> THEN Err("Unsupported") ELSE calls[Len(calls)].outcome
  /\ UNCHANGED <<family, Tuple, input, origin, instructions, max_weight, properties, pc, calls, log,
                 cur, parked>>

\* Variant: a tuple with no elements accepts
AdmissionReject_EmptyOk ==
  /\ family = "should_execute" /\ ret = Running /\ pc > Len(Tuple)
  /\ ret' = IF Tuple = <<>> THEN Ok ELSE Err("Unsupported")
  /\ UNCHANGED <<family, Tuple, input, origin, instructions, max_weight, properties, pc, calls, log,
                 cur, parked>>

\* After the last expansion: Err(ProcessMessageError::Unsupported)
AdmissionReject ==
  /\ family = "should_execute" /\ ret = Running /\ pc > Len(Tuple)
  /\ ret' = Err("Unsupported")
  /\ UNCHANGED <<family, Tuple, input, origin, instructions, max_weight, properties, pc, calls, log,
                 cur, parked>>

\* ----------------------------------------- impl CheckSuspension for Tuple
\* Variant: no short circuit, every element is asked and the answers or-ed
SuspensionTrial_NoShortCircuit ==
  /\ family = "is_suspended" /\ ret = Running /\ pc <= Len(Tuple)
  /\ LET r == is_suspended(Tuple[pc], origin, instructions, max_weight, properties)
         seen == r.result = Bool(TRUE) \/ \E k \in 1..Len(calls) : calls[k].outcome = Bool(TRUE)
     IN  /\ instructions' = r.instructions
         /\ properties' = r.properties
         /\ calls' = Append(calls, Call(Tuple[pc], r))
         /\ IF pc = Len(Tuple) /\ seen
            THEN ret' = Bool(TRUE) /\ pc' = pc
            ELSE ret' = ret /\ pc' = pc + 1
  /\ UNCHANGED <<family, Tuple, input, origin, max_weight, log, cur, parked>>

\* One expansion of the for_tuples! body: ask the next element, return true
\* when it answers true.  No event is emitted in this impl.
SuspensionTrial ==
  /\ family = "is_suspended" /\ ret = Running /\ pc <= Len(Tuple)
  /\ LET r == is_suspended(Tuple[pc], origin, instructions, max_weight, properties)
     IN  /\ instructions' = r.instructions
         /\ properties' = r.properties
         /\ calls' = Append(calls, Call(Tuple[pc], r))
         /\ IF r.result = Bool(TRUE)
            THEN ret' = Bool(TRUE) /\ pc' = pc
            ELSE ret' = ret /\ pc' = pc + 1
  /\ UNCHANGED <<family, Tuple, input, origin, max_weight, log, cur, parked>>

\* After the last expansion: false
SuspensionFalse ==
  /\ family = "is_suspended" /\ ret = Running /\ pc > Len(Tuple)
  /\ ret' = Bool(FALSE)
  /\ UNCHANGED <<family, Tuple, input, origin, instructions, max_weight, properties, pc, calls, log,
                 cur, parked>>

\* ------------------------------------------- impl DenyExecution for Tuple
\* Variant: a rejection is logged but the expansion goes on
DenialTrial_SwallowErr ==
  /\ family = "deny_execution" /\ ret = Running /\ pc <= Len(Tuple)
  /\ LET r == deny_execution(Tuple[pc], origin, instructions, max_weight, properties)
     IN  /\ instructions' = r.instructions
         /\ properties' = r.properties
         /\ calls' = Append(calls, Call(Tuple[pc], r))
         /\ log' = IF r.result = Ok
                   THEN Append(log \o r.events, Event("trace", "xcm::deny_execution", r, Tuple[pc].name, "pass barrier"))
                   ELSE Append(log \o r.events, Event("error", "xcm::deny_execution", r, Tuple[pc].name, "did not pass barrier"))
         /\ ret' = ret
         /\ pc' = pc + 1
  /\ UNCHANGED <<family, Tuple, input, origin, max_weight, cur, parked>>

\* Variant: a rejection is returned as the generic Unsupported
DenialTrial_GenericErr ==
  /\ family = "deny_execution" /\ ret = Running /\ pc <= Len(Tuple)
  /\ LET r == deny_execution(Tuple[pc], origin, instructions, max_weight, properties)
     IN  /\ instructions' = r.instructions
         /\ properties' = r.properties
         /\ calls' = Append(calls, Call(Tuple[pc], r))
         /\ IF r.result = Ok
            THEN /\ log' = Append(log \o r.events, Event("trace", "xcm::deny_execution", r, Tuple[pc].name, "pass barrier"))
                 /\ ret' = ret
                 /\ pc' = pc + 1
            ELSE /\ log' = Append(log \o r.events, Event("error", "xcm::deny_execution", r, Tuple[pc].name, "did not pass barrier"))
                 /\ ret' = Err("Unsupported")
                 /\ pc' = pc
  /\ UNCHANGED <<family, Tuple, input, origin, max_weight, cur, parked>>

\* Variant: a rejection is logged at trace level like every other trial
DenialTrial_TraceLevel ==
  /\ family = "deny_execution" /\ ret = Running /\ pc <= Len(Tuple)
  /\ LET r == deny_execution(Tuple[pc], origin, instructions, max_weight, properties)
     IN  /\ instructions' = r.instructions
         /\ properties' = r.properties
         /\ calls' = Append(calls, Call(Tuple[pc], r))
         /\ IF r.result = Ok
            THEN /\ log' = Append(log \o r.events, Event("trace", "xcm::deny_execution", r, Tuple[pc].name, "pass barrier"))
                 /\ ret' = ret
                 /\ pc' = pc + 1
            ELSE /\ log' = Append(log \o r.events, Event("trace", "xcm::deny_execution", r, Tuple[pc].name, "did not pass barrier"))
                 /\ ret' = Err(r.result[2])
                 /\ pc' = pc
  /\ UNCHANGED <<family, Tuple, input, origin, max_weight, cur, parked>>

\* Variant: on a rejection the caller's instructions and Properties are restored
DenialTrial_Rollback ==
  /\ family = "deny_execution" /\ ret = Running /\ pc <= Len(Tuple)
  /\ LET r == deny_execution(Tuple[pc], origin, instructions, max_weight, properties)
     IN  /\ calls' = Append(calls, Call(Tuple[pc], r))
         /\ IF r.result = Ok
            THEN /\ instructions' = r.instructions
                 /\ properties' = r.properties
                 /\ log' = Append(log \o r.events, Event("trace", "xcm::deny_execution", r, Tuple[pc].name, "pass barrier"))
                 /\ ret' = ret
                 /\ pc' = pc + 1
            ELSE /\ instructions' = input.instructions
                 /\ properties' = input.properties
                 /\ log' = Append(log \o r.events, Event("error", "xcm::deny_execution", r, Tuple[pc].name, "did not pass barrier"))
                 /\ ret' = Err(r.result[2])
                 /\ pc' = pc
  /\ UNCHANGED <<family, Tuple, input, origin, max_weight, cur, parked>>

\* One expansion of the for_tuples! body: try the next element; Err(error)
\* is logged and returned as it is, Ok is traced and the next expansion follows.
DenialTrial ==
  /\ family = "deny_execution" /\ ret = Running /\ pc <= Len(Tuple)
  /\ LET r == deny_execution(Tuple[pc], origin, instructions, max_weight, properties)
     IN  /\ instructions' = r.instructions
         /\ properties' = r.properties
         /\ calls' = Append(calls, Call(Tuple[pc], r))
         /\ IF r.result = Ok
            THEN /\ log' = Append(log \o r.events, Event("trace", "xcm::deny_execution", r, Tuple[pc].name, "pass barrier"))
                 /\ ret' = ret
                 /\ pc' = pc + 1
            ELSE /\ log' = Append(log \o r.events, Event("error", "xcm::deny_execution", r, Tuple[pc].name, "did not pass barrier"))
                 /\ ret' = Err(r.result[2])
                 /\ pc' = pc
  /\ UNCHANGED <<family, Tuple, input, origin, max_weight, cur, parked>>

\* After the last expansion: Ok(())
DenialAccept ==
  /\ family = "deny_execution" /\ ret = Running /\ pc > Len(Tuple)
  /\ ret' = Ok
  /\ UNCHANGED <<family, Tuple, input, origin, instructions, max_weight, properties, pc, calls, log,
                 cur, parked>>

Next ==
  \/ AdmissionTrial
  \/ AdmissionReject
  \/ SuspensionTrial
  \/ SuspensionFalse
  \/ DenialTrial
  \/ DenialAccept

Spec == Init /\ [][Next]_vars

\* Chains with a tuple as one of their elements
NestInstr == 1     \* longest instruction slice given to a nested chain

NestedChains ==
  UNION {{<<NestedTuple(<<a, b>>), c>>,
          <<a, NestedTuple(<<b, c>>)>>,
          <<a, NestedTuple(<<>>), b>>,
          <<NestedTuple(<<NestedTuple(<<a>>), b>>)>>} : a \in Policies, b \in Policies, c \in Policies}

NestInit ==
  /\ family \in Families
  /\ Tuple \in NestedChains
  /\ origin \in Location
  /\ instructions \in SeqsUpTo(Instruction, NestInstr)
  /\ max_weight \in Weight
  /\ properties \in Properties
  /\ input = [origin |-> origin, instructions |-> instructions,
              max_weight |-> max_weight, properties |-> properties]
  /\ pc = 1
  /\ ret = Running
  /\ calls = <<>>
  /\ log = <<>>
  /\ cur = 1
  /\ parked = <<>>

NestSpec == NestInit /\ [][Next]_vars

\* Several evaluations in progress at once, one per message, each on its own
\* thread: a thread's frame holds the arguments and locals of its call.
NumEvals == 2      \* evaluations in progress at once

\* The frame of the running evaluation
Frame ==
  [family |-> family, Tuple |-> Tuple, input |-> input, origin |-> origin,
   instructions |-> instructions, max_weight |-> max_weight, properties |-> properties,
   pc |-> pc, ret |-> ret, calls |-> calls, log |-> log]

\* The frame of a call of the tuple impl that has not yet started
Entry(fam, chain, o, i, w, pr) ==
  [family |-> fam, Tuple |-> chain,
   input |-> [origin |-> o, instructions |-> i, max_weight |-> w, properties |-> pr],
   origin |-> o, instructions |-> i, max_weight |-> w, properties |-> pr,
   pc |-> 1, ret |-> Running, calls |-> <<>>, log |-> <<>>]

\* The scheduler takes the running thread off and runs thread e instead
Switch(e) ==
  /\ e \in DOMAIN parked
  /\ cur' = e
  /\ parked' = [x \in (DOMAIN parked \ {e}) \cup {cur} |-> IF x = cur THEN Frame ELSE parked[x]]
  /\ family' = parked[e].family
  /\ Tuple' = parked[e].Tuple
  /\ input' = parked[e].input
  /\ origin' = parked[e].origin
  /\ instructions' = parked[e].instructions
  /\ max_weight' = parked[e].max_weight
  /\ properties' = parked[e].properties
  /\ pc' = parked[e].pc
  /\ ret' = parked[e].ret
  /\ calls' = parked[e].calls
  /\ log' = parked[e].log

\* The chains the messages are evaluated with: implementors that read and
\* write the instructions and the Properties
ConcChains ==
  {<<TakeCredit, AllowPaid>>, <<GrantCredit, AllowPaid>>,
   <<StripHead, GrantCredit>>, <<AllowPaid, TakeCredit>>, <<AllowHead, AllowPaid>>}

\* The Properties the messages arrive with
ConcProperties == [weight_credit : Weight, message_id : {None}]

ConcInit ==
  /\ family \in Families
  /\ Tuple \in ConcChains
  /\ origin = "Here"
  /\ instructions = <<"BuyExecution">>
  /\ max_weight \in Weight
  /\ properties \in ConcProperties
  /\ input = [origin |-> origin, instructions |-> instructions,
              max_weight |-> max_weight, properties |-> properties]
  /\ pc = 1
  /\ ret = Running
  /\ calls = <<>>
  /\ log = <<>>
  /\ cur = 1
  /\ \E prs \in [2..NumEvals -> ConcProperties] :
       parked = [e \in 2..NumEvals |->
                   Entry(family, Tuple, origin, instructions, max_weight, prs[e])]

ConcNext ==
  \/ Next
  \/ \E e \in 1..NumEvals : Switch(e)

ConcSpec == ConcInit /\ [][ConcNext]_vars

\* The tuple impls are straight-line code: a call that has started keeps
\* executing until it returns.
FairInit == Init /\ origin = "Here" /\ Len(instructions) <= 1

FairSpec == FairInit /\ [][Next]_vars /\ WF_vars(Next)

\* ------------------------------------------------------------ properties
Returned == ret # Running

\* The instruction slice and Properties after elements 1..k of the chain
\* have each run once, in declared order, on the state its predecessor left,
\* starting from the caller's arguments.
RECURSIVE AfterPrefix(_, _)
AfterPrefix(chain, k) ==
  IF k = 0
  THEN [instructions |-> input.instructions, properties |-> input.properties]
  ELSE LET s == AfterPrefix(chain, k - 1)
           r == should_execute(chain[k], input.origin, s.instructions, input.max_weight, s.properties)
       IN  [instructions |-> r.instructions, properties |-> r.properties]

Caller == [instructions |-> instructions, properties |-> properties]
Supplied == [instructions |-> input.instructions, properties |-> input.properties]

\* C1: in the admission chain, once the element at index i has returned
\* Ok(()), the chain has returned Ok(()), that call is the last call made (no
\* element at a greater index is evaluated), and the instructions and
\* Properties the caller sees are those element i left.
C1_FirstOkReturns ==
  family = "should_execute" =>
    /\ \A k \in 1..Len(calls) :
         calls[k].outcome = Ok =>
           /\ ret = Ok
           /\ k = Len(calls)
           /\ \A j \in 1..Len(calls) : calls[j].index <= calls[k].index
           /\ instructions = calls[k].instructions_out
           /\ properties = calls[k].properties_out
    /\ ret = Ok => calls # <<>> /\ calls[Len(calls)].outcome = Ok

C1_Witness ==
  /\ family = "should_execute" /\ ret = Ok
  /\ Len(calls) < Len(Tuple)
  /\ calls[Len(calls)].outcome = Ok
  /\ Caller # Supplied

\* C2: in the denial chain, when the first element to return Err(e) is the
\* one at index i, the chain returns Err(e) with the same e, and that call is
\* the last call made.
C2_FirstErrReturned ==
  family = "deny_execution" =>
    /\ \A k \in 1..Len(calls) :
         calls[k].outcome # Ok =>
           /\ ret = calls[k].outcome
           /\ ret = Err(Tuple[calls[k].index].err)
           /\ k = Len(calls)
           /\ \A j \in 1..Len(calls) : calls[j].index <= calls[k].index
    /\ (Returned /\ ret # Ok) => calls # <<>> /\ calls[Len(calls)].outcome = ret

C2_Witness ==
  /\ family = "deny_execution" /\ ret = Err("Yield")
  /\ Len(calls) < Len(Tuple)
  /\ Tuple[Len(calls) + 1].err # "Yield"

\* C3: when every element of the admission chain has rejected, the chain
\* returns Err(Unsupported), whatever errors the elements returned; an
\* admission chain never returns any other error.
C3_AllRejectUnsupported ==
  (family = "should_execute" /\ Returned) =>
    /\ (\A k \in 1..Len(calls) : calls[k].outcome # Ok) => ret = Err("Unsupported")
    /\ ret \in {Ok, Err("Unsupported")}

C3_Witness ==
  /\ family = "should_execute" /\ ret = Err("Unsupported")
  /\ Len(calls) = Len(Tuple) /\ Len(calls) >= 2
  /\ \A k \in 1..Len(calls) : calls[k].outcome \in {Err("BadFormat"), Err("Yield")}

\* C4 as stated: for a non-empty admission chain, if some element accepts
\* when run alone on the caller's original instructions and Properties, the
\* chain accepts.
C4_AcceptsInIsolation ==
  (family = "should_execute" /\ Returned /\ Tuple # <<>>) =>
    ((\E i \in 1..Len(Tuple) :
        should_execute(Tuple[i], input.origin, input.instructions,
                       input.max_weight, input.properties).result = Ok)
     => ret = Ok)

\* C4 amended: for a non-empty admission chain, if some element accepts when
\* run at its turn, on the instructions and Properties left by running the
\* elements before it in declared order, the chain accepts.
C4_AcceptsAtItsTurn ==
  (family = "should_execute" /\ Returned /\ Tuple # <<>>) =>
    ((\E i \in 1..Len(Tuple) :
        LET s == AfterPrefix(Tuple, i - 1)
        IN  should_execute(Tuple[i], input.origin, s.instructions,
                           input.max_weight, s.properties).result = Ok)
     => ret = Ok)

\* an element that rejects on the caller's input accepts at its turn
C4_Witness ==
  /\ family = "should_execute" /\ ret = Ok /\ Len(calls) >= 2
  /\ should_execute(Tuple[Len(calls)], input.origin, input.instructions,
                    input.max_weight, input.properties).result # Ok

\* C5: when the admission chain accepts, the final instructions and
\* Properties are those obtained by applying, in declared order, the writes
\* of every element that rejected before the first accepting one and then
\* those of the accepting one, each on the state its predecessor left; for
\* the chain (PolicyReject, PolicyAccept) the Properties are exactly what
\* PolicyAccept makes of the caller's Properties.
C5_AcceptedStateIsFold ==
  (family = "should_execute" /\ ret = Ok) =>
    /\ \A k \in 1..Len(calls) :
         /\ calls[k].index = k
         /\ calls[k].outcome = Ok <=> k = Len(calls)
    /\ Caller = AfterPrefix(Tuple, Len(calls))
    /\ Tuple = <<PolicyReject, PolicyAccept>> =>
         properties = should_execute(PolicyAccept, input.origin, input.instructions,
                                     input.max_weight, input.properties).properties

C5_Witness ==
  /\ family = "should_execute" /\ ret = Ok /\ Len(calls) >= 2
  /\ calls[1].properties_out # input.properties
  /\ calls[Len(calls)].properties_out # calls[Len(calls)].properties_in

\* C6: the suspension chain returns true as soon as an element returns true,
\* and that call is the last call made; it returns false only when every
\* element returned false, each element having been evaluated exactly once.
C6_SuspensionShortCircuit ==
  family = "is_suspended" =>
    /\ \A k \in 1..Len(calls) :
         calls[k].outcome = Bool(TRUE) =>
           /\ ret = Bool(TRUE)
           /\ k = Len(calls)
           /\ \A j \in 1..Len(calls) : calls[j].index <= calls[k].index
    /\ ret = Bool(TRUE) => calls # <<>> /\ calls[Len(calls)].outcome = Bool(TRUE)
    /\ ret = Bool(FALSE) =>
         /\ Len(calls) = Len(Tuple)
         /\ \A k \in 1..Len(calls) : calls[k].index = k /\ calls[k].outcome = Bool(FALSE)
    /\ Returned => ret \in {Bool(TRUE), Bool(FALSE)}

C6_Witness ==
  /\ family = "is_suspended" /\ ret = Bool(TRUE)
  /\ Len(calls) >= 2 /\ Len(calls) = Len(Tuple)
  /\ calls[1].outcome = Bool(FALSE)

\* C7: the denial chain returns Ok(()) if and only if every element of the
\* chain returned Ok(()), and then every element was evaluated exactly once,
\* in declared order.
C7_DenialOkIffAllOk ==
  (family = "deny_execution" /\ Returned) =>
    /\ ret = Ok <=> (/\ Len(calls) = Len(Tuple)
                     /\ \A k \in 1..Len(calls) : calls[k].outcome = Ok)
    /\ ret = Ok => \A k \in 1..Len(calls) : calls[k].index = k /\ calls[k].policy = Tuple[k]

C7_Witness ==
  /\ family = "deny_execution" /\ ret = Ok
  /\ Len(calls) >= 2
  /\ Caller # Supplied

\* C8: with no elements, the admission chain returns Err(Unsupported), the
\* denial chain returns Ok(()) and the suspension chain returns false, and
\* the instructions and Properties are as the caller supplied them.
C8_EmptyChains ==
  (Tuple = <<>> /\ Returned) =>
    /\ family = "should_execute" => ret = Err("Unsupported")
    /\ family = "deny_execution" => ret = Ok
    /\ family = "is_suspended" => ret = Bool(FALSE)
    /\ calls = <<>>
    /\ Caller = Supplied

C8_Witness ==
  /\ Tuple = <<>> /\ family = "should_execute" /\ ret = Err("Unsupported")
  /\ instructions # <<>> /\ properties.weight_credit > 0

\* C9: the admission chain undoes nothing: every trial starts from the
\* instructions and Properties its predecessor left, rejected or not (the
\* first from the caller's), and when the whole chain rejects the caller sees
\* the accumulated writes of all elements.
C9_NonTransactional ==
  family = "should_execute" =>
    /\ \A k \in 1..Len(calls) :
         LET before == IF k = 1 THEN Supplied
                       ELSE [instructions |-> calls[k - 1].instructions_out,
                             properties |-> calls[k - 1].properties_out]
         IN  /\ calls[k].instructions_in = before.instructions
             /\ calls[k].properties_in = before.properties
    /\ ret = Err("Unsupported") =>
         /\ Len(calls) = Len(Tuple)
         /\ Caller = AfterPrefix(Tuple, Len(Tuple))

C9_Witness ==
  /\ family = "should_execute" /\ ret = Err("Unsupported")
  /\ Len(calls) >= 2
  /\ calls[1].instructions_out # input.instructions
  /\ calls[2].properties_out # calls[2].properties_in
  /\ instructions # input.instructions /\ properties # input.properties

\* C10 as stated: after an admission element has removed the instruction at
\* index 0 and rejected, the next element observes a sequence one element
\* shorter than the one the caller supplied.
C10_NextSeesShortened ==
  family = "should_execute" =>
    \A k \in 1..Len(calls) :
      (/\ k < Len(calls)
       /\ calls[k].policy = StripHead
       /\ calls[k].instructions_in # <<>>)
      => /\ calls[k + 1].instructions_in = Tail(calls[k].instructions_in)
         /\ Len(calls[k + 1].instructions_in) + 1 = Len(input.instructions)

\* C10 amended: an admission element can overwrite the instruction at index
\* 0 in place and then reject, and the next element observes the rewritten
\* sequence; the slice an element is given always has the length of the one
\* the caller supplied.
C10_NextSeesRewritten ==
  family = "should_execute" =>
    /\ Len(instructions) = Len(input.instructions)
    /\ \A k \in 1..Len(calls) :
         /\ Len(calls[k].instructions_in) = Len(input.instructions)
         /\ (/\ k < Len(calls)
             /\ calls[k].policy = StripHead
             /\ calls[k].instructions_in # <<>>)
            => calls[k + 1].instructions_in =
                 [calls[k].instructions_in EXCEPT ![1] = "ClearOrigin"]

C10_Witness ==
  /\ family = "should_execute" /\ Len(calls) >= 2
  /\ calls[1].policy = StripHead
  /\ calls[1].outcome # Ok
  /\ input.instructions # <<>> /\ input.instructions[1] = "BuyExecution"
  /\ calls[2].instructions_in[1] = "ClearOrigin"

\* An event that identifies the trial recorded as call c: the element, the
\* origin, the instructions, the weight budget, the Properties as the trial
\* left them, and the outcome.
EventMatches(e, c) ==
  /\ e.barrier = c.policy.name
  /\ e.origin = c.origin
  /\ e.instructions = c.instructions_out
  /\ e.max_weight = c.max_weight
  /\ e.properties = c.properties_out
  /\ c.outcome = Ok => e.message = "pass barrier" /\ e.error = None
  /\ c.outcome # Ok => /\ e.message = "did not pass barrier"
                       /\ c.outcome[1] = "Err" /\ e.error = c.outcome[2]

\* C11 as stated: every trial in every chain (admission, suspension, denial)
\* emits exactly one event that identifies the element, the origin, the
\* instructions, the weight budget, the Properties and the outcome.
C11_EveryTrialOneEvent ==
  /\ Len(log) = Len(calls)
  /\ \A k \in 1..Len(calls) : k <= Len(log) /\ EventMatches(log[k], calls[k])

\* C11 amended: every trial in the admission and denial chains emits exactly
\* one such event; the trials of the suspension chain emit no event.
C11_AdmissionDenialTrialsOneEvent ==
  /\ family \in {"should_execute", "deny_execution"} =>
       /\ Len(log) = Len(calls)
       /\ \A k \in 1..Len(calls) : EventMatches(log[k], calls[k])
  /\ family = "is_suspended" => log = <<>>

C11_Witness ==
  /\ family = "deny_execution" /\ Returned
  /\ Len(log) = 2
  /\ log[1].message = "pass barrier" /\ log[1].properties # input.properties
  /\ log[2].error = "Yield"

\* C12: in every chain the elements evaluated are a prefix of the declared
\* order: the k-th call is the call of the k-th element, and every call
\* before the last one made returned the non-terminal outcome of its chain
\* (Err for admission, false for suspension, Ok for denial).
C12_EvaluatedPrefix ==
  /\ Len(calls) <= Len(Tuple)
  /\ \A k \in 1..Len(calls) :
       /\ calls[k].index = k
       /\ calls[k].policy = Tuple[k]
       /\ k < Len(calls) => ~Stops(family, calls[k].outcome)
       /\ (k < Len(calls) /\ family = "should_execute") => calls[k].outcome[1] = "Err"
       /\ (k < Len(calls) /\ family = "is_suspended") => calls[k].outcome = Bool(FALSE)
       /\ (k < Len(calls) /\ family = "deny_execution") => calls[k].outcome = Ok
  /\ (~Returned) => pc = Len(calls) + 1

C12_Witness ==
  /\ family = "is_suspended" /\ Returned
  /\ Len(calls) = 2 /\ Tuple[1] # Tuple[2]

\* C13: every chain evaluation terminates with a verdict after at most one
\* pass over the tuple: no element is evaluated twice, and the number of
\* trials never exceeds the number of elements.
C13_TerminatesInOnePass ==
  /\ [](/\ Len(calls) <= Len(Tuple)
        /\ \A j, k \in 1..Len(calls) : j # k => calls[j].index # calls[k].index)
  /\ <>Returned

C13_Witness ==
  /\ Returned /\ Len(Tuple) >= 2 /\ Len(calls) = Len(Tuple)

\* C14: origin and weight budget are read-only: every trial in every chain is
\* given the origin and max_weight the caller supplied, and they are
\* unchanged when the chain returns.
C14_OriginWeightReadOnly ==
  /\ origin = input.origin
  /\ max_weight = input.max_weight
  /\ \A k \in 1..Len(calls) :
       calls[k].origin = input.origin /\ calls[k].max_weight = input.max_weight

C14_Witness ==
  /\ Returned /\ Len(calls) >= 2
  /\ max_weight > 0
  /\ calls[1].properties_out # input.properties
  /\ calls[2].policy = AllowParent

\* Severity order of tracing::Level
Severity(level) ==
  CASE level = "trace" -> 0
    [] level = "debug" -> 1
    [] level = "info" -> 2
    [] level = "warn" -> 3
    [] level = "error" -> 4

\* C15: a rejecting trial of the denial chain is logged at error level, which
\* is strictly above the level (trace) of every event of an admission trial, a
\* suspension trial or a passing denial trial.
C15_DenialRejectionSeverity ==
  \A k \in 1..Len(log) :
    IF log[k].target = "xcm::deny_execution" /\ log[k].error # None
    THEN /\ log[k].level = "error"
         /\ Severity(log[k].level) > Severity("trace")
    ELSE log[k].level = "trace"

C15_Witness ==
  /\ family = "deny_execution" /\ Len(log) >= 2
  /\ log[1].level = "trace"
  /\ log[Len(log)].level = "error"

\* The tuple impl of family fam with every tracing statement deleted
RECURSIVE Untraced(_, _, _, _, _, _)
Untraced(fam, elems, o, i, w, pr) ==
  IF elems = <<>>
  THEN [result |-> Fallthrough(fam), instructions |-> i, properties |-> pr, leaves |-> <<>>]
  ELSE LET r == ElementCall(fam, Head(elems), o, i, w, pr)
       IN  IF Stops(fam, r.result)
           THEN [result |-> r.result, instructions |-> r.instructions,
                 properties |-> r.properties, leaves |-> r.leaves]
           ELSE LET rest == Untraced(fam, Tail(elems), o, r.instructions, w, r.properties)
                IN  [rest EXCEPT !.leaves = r.leaves \o @]

\* The implementors that ran in the first k calls, in order
RECURSIVE LeavesOf(_, _)
LeavesOf(cs, k) == IF k = 0 THEN <<>> ELSE LeavesOf(cs, k - 1) \o cs[k].leaves

\* C16: tracing is pure observation: after a trial and its event, the
\* instructions and Properties are what the element left and origin and
\* weight budget are the caller's; the verdict, the final state and the
\* elements evaluated are those of the chain with its tracing deleted.
C16_TracingIsPureObservation ==
  /\ calls # <<>> =>
       /\ instructions = calls[Len(calls)].instructions_out
       /\ properties = calls[Len(calls)].properties_out
       /\ origin = calls[Len(calls)].origin
       /\ max_weight = calls[Len(calls)].max_weight
  /\ Returned =>
       LET u == Untraced(family, Tuple, input.origin, input.instructions,
                         input.max_weight, input.properties)
       IN  /\ ret = u.result
           /\ instructions = u.instructions
           /\ properties = u.properties
           /\ LeavesOf(calls, Len(calls)) = u.leaves

C16_Witness ==
  /\ family = "should_execute" /\ Returned
  /\ Len(log) >= 2
  /\ log[1].properties # input.properties
  /\ properties # log[1].properties

\* The state after elements 1..k of a chain of family fam have each run once
RECURSIVE AfterPrefixOf(_, _, _)
AfterPrefixOf(fam, chain, k) ==
  IF k = 0
  THEN Supplied
  ELSE LET s == AfterPrefixOf(fam, chain, k - 1)
           r == ElementCall(fam, chain[k], input.origin, s.instructions, input.max_weight, s.properties)
       IN  [instructions |-> r.instructions, properties |-> r.properties]

\* C18: the denial and suspension chains undo nothing either: every trial
\* starts from the state its predecessor left, and when the denial chain
\* returns Err(e) or the suspension chain returns true, the caller sees the
\* writes of every element evaluated, the terminating one included.
C18_DenialSuspensionNonTransactional ==
  family \in {"deny_execution", "is_suspended"} =>
    /\ \A k \in 1..Len(calls) :
         LET before == IF k = 1 THEN Supplied
                       ELSE [instructions |-> calls[k - 1].instructions_out,
                             properties |-> calls[k - 1].properties_out]
         IN  /\ calls[k].instructions_in = before.instructions
             /\ calls[k].properties_in = before.properties
    /\ (Returned /\ ret \notin {Ok, Bool(FALSE)}) =>
         /\ calls # <<>>
         /\ Caller = [instructions |-> calls[Len(calls)].instructions_out,
                      properties |-> calls[Len(calls)].properties_out]
         /\ Caller = AfterPrefixOf(family, Tuple, Len(calls))

C18_Witness ==
  /\ family = "deny_execution" /\ Returned /\ ret # Ok
  /\ Len(calls) >= 2
  /\ calls[1].properties_out # input.properties
  /\ calls[2].instructions_out # calls[2].instructions_in
  /\ Caller # Supplied

\* The leaf implementors of a chain, nested tuples opened up, in order
RECURSIVE Flatten(_)
Flatten(elems) ==
  IF elems = <<>> THEN <<>>
  ELSE (IF IsTuple(Head(elems)) THEN Flatten(Head(elems).elems) ELSE <<Head(elems)>>)
       \o Flatten(Tail(elems))

\* C19: for each of the three families, a chain with a chain among its
\* elements returns the same verdict, the same error value and the same final
\* instructions and Properties, and evaluates the same leaf implementors in
\* the same order, as the flattened chain on the same arguments.
C19_NestingAssociative ==
  Returned =>
    LET f == TupleImpl(family, Flatten(Tuple), input.origin, input.instructions,
                       input.max_weight, input.properties)
    IN  /\ ret = f.result
        /\ instructions = f.instructions
        /\ properties = f.properties
        /\ LeavesOf(calls, Len(calls)) = f.leaves

C19_Witness ==
  /\ family = "deny_execution" /\ ret = Err("Yield")
  /\ IsTuple(Tuple[1]) /\ Len(Tuple) = 2
  /\ Len(calls) = 1
  /\ calls[1].leaves = <<"PolicyAccept", "AllowPaid">>
  /\ Caller # Supplied

\* The frames of all evaluations in progress
Frames == {Frame} \cup {parked[e] : e \in DOMAIN parked}

\* The instructions and Properties after the first k elements of chain have
\* run, alone, on the arguments o, i, w, pr
RECURSIVE AloneAfter(_, _, _, _, _, _, _)
AloneAfter(fam, chain, k, o, i, w, pr) ==
  IF k = 0
  THEN [instructions |-> i, properties |-> pr]
  ELSE LET s == AloneAfter(fam, chain, k - 1, o, i, w, pr)
           r == ElementCall(fam, chain[k], o, s.instructions, w, s.properties)
       IN  [instructions |-> r.instructions, properties |-> r.properties]

\* C17: the tuple impls hold no state of their own: when evaluations over
\* distinct messages are interleaved in any order, every evaluation is at
\* each moment where it would be if it ran alone, and its verdict and final
\* instructions and Properties are those of running it alone.
C17_InterleavingIndependent ==
  \A f \in Frames :
    /\ [instructions |-> f.instructions, properties |-> f.properties]
         = AloneAfter(f.family, f.Tuple, Len(f.calls), f.input.origin,
                      f.input.instructions, f.input.max_weight, f.input.properties)
    /\ f.ret # Running =>
         LET a == TupleImpl(f.family, f.Tuple, f.input.origin, f.input.instructions,
                            f.input.max_weight, f.input.properties)
         IN  /\ f.ret = a.result
             /\ f.instructions = a.instructions
             /\ f.properties = a.properties

\* an evaluation has returned after two trials while another, on a message
\* with other Properties, was taken off between its first and second trial
C17_Witness ==
  /\ Returned /\ Len(calls) >= 2
  /\ properties # input.properties
  /\ \E e \in DOMAIN parked :
       /\ parked[e].ret = Running /\ Len(parked[e].calls) = 1
       /\ parked[e].input.properties # input.properties
       /\ parked[e].properties # properties
====
